---- MODULE Spec2Model ----
(***************************************************************************)
(* Model of server.py: main() binds a ThreadingHTTPServer with the         *)
(* SimpleHTTPRequestHandler on 127.0.0.1:8000, prints the serving line,    *)
(* tries to open the browser and serves forever.                           *)
(*                                                                         *)
(* server.py holds no request handling of its own: line 3 imports it and   *)
(* line 11 instantiates it.  The definitions below that model request      *)
(* handling follow the CPython 3.11 standard library classes named there   *)
(* (socketserver.TCPServer / ThreadingMixIn, http.server.                  *)
(* BaseHTTPRequestHandler / SimpleHTTPRequestHandler, posixpath.normpath). *)
(***************************************************************************)
EXTENDS Integers, Sequences, FiniteSets, TLC

(***************************************************************************)
(* Program constants                                                       *)
(***************************************************************************)
HOST == "127.0.0.1"
PORT == 8000

(***************************************************************************)
(* Bounds                                                                  *)
(***************************************************************************)
\* connection slots of the concurrent specification
MaxConns == 2
\* longest request path, in segments, of the path specification
MaxSegs == 2

(***************************************************************************)
(* The file system the process runs in.  A path is the sequence of its     *)
(* names below "/".  Every regular file has its own content (a number).    *)
(***************************************************************************)
FsDirs == { <<>>, <<"srv">>, <<"srv", "d">>, <<"srv", "e">> }

FsFiles == { <<"a">>, <<"srv", "a">>, <<"srv", "d", "index.html">>,
             <<"srv", "d", "a">>, <<"srv", "e", "index.htm">> }

FsContent(p) ==
    CASE p = <<"a">>                       -> 1
      [] p = <<"srv", "a">>                -> 2
      [] p = <<"srv", "d", "index.html">>  -> 3
      [] p = <<"srv", "d", "a">>           -> 4
      [] p = <<"srv", "e", "index.htm">>   -> 5
      [] OTHER                             -> 0

\* the directories the process may be started in
CwdChoices == { <<"srv">>, <<"srv", "d">> }

\* the names a request path is built from
SegNames == { "..", "a", "d", "e", "index.html" }

Last(q) == q[Len(q)]

NoFsEvent == [op |-> "none", path |-> <<>>]

\* what another process may do to the file system while the server runs
FsEvents == [op : {"unlink"}, path : FsFiles]
            \cup [op : {"chmod000"}, path : FsFiles \cup (FsDirs \ {<<>>})]

\* the events of the concurrent specification: those on the files its
\* requests name
ServeFsEvents == { ev \in FsEvents : ev.path \in FsFiles /\ Last(ev.path) = "a" }

IsPrefix(p, q) == Len(p) <= Len(q) /\ SubSeq(q, 1, Len(p)) = p

\* every directory above p can be searched
Reachable(ev, p) ==
    ~(ev.op = "chmod000" /\ ev.path \in FsDirs
        /\ IsPrefix(ev.path, p) /\ ev.path # p)

\* os.path.isdir
IsDir(ev, p) == p \in FsDirs /\ Reachable(ev, p)

\* os.path.isfile
IsFile(ev, p) ==
    /\ p \in FsFiles
    /\ Reachable(ev, p)
    /\ ~(ev.op = "unlink" /\ ev.path = p)

\* open(path, 'rb') succeeds
CanOpen(ev, p) == IsFile(ev, p) /\ ~(ev.op = "chmod000" /\ ev.path = p)

\* os.listdir(path): the names of the immediate entries
ListDir(ev, p) ==
    { q[Len(q)] : q \in { f \in (FsFiles \cup FsDirs) :
                            /\ Len(f) = Len(p) + 1
                            /\ IsPrefix(p, f)
                            /\ ~(ev.op = "unlink" /\ ev.path = f) } }

\* os.listdir(path) succeeds
CanList(ev, p) == IsDir(ev, p) /\ ~(ev.op = "chmod000" /\ ev.path = p)

(***************************************************************************)
(* Requests.  A request path is the string                                 *)
(*   (abs ? "/" : "") + "/".join(segs) + (slash ? "/" : "")                *)
(* and the bare "/" is abs with no segments.  ims says that the request    *)
(* carries an If-Modified-Since date not before the file's modification    *)
(* time (and no If-None-Match).                                            *)
(***************************************************************************)
SegSeqs(n) == UNION { [1..k -> SegNames] : k \in 0..n }

Malformed ==
    [kind |-> "malformed", abs |-> TRUE, segs |-> <<>>, slash |-> FALSE,
     ims |-> FALSE]

Requests(n) ==
    { r \in [kind : {"GET", "HEAD", "POST"}, abs : BOOLEAN, segs : SegSeqs(n),
             slash : BOOLEAN, ims : BOOLEAN] :
        /\ (r.segs = <<>> => r.abs /\ ~r.slash)
        /\ (r.ims => r.kind = "GET") }
    \cup {Malformed}

\* the requests of the path specification
PathRequests == Requests(MaxSegs)

\* the requests of the concurrent specification: the malformed request and
\* the plain GETs of "/", "/..", "/a", "/e", "/../a" and "/../e"
ServePaths ==
    { <<>>, <<"..">> } \cup { <<n>> : n \in {"a", "e"} }
    \cup { <<"..", n>> : n \in {"a", "e"} }

ServeRequests ==
    { r \in [kind : {"GET"}, abs : {TRUE}, segs : ServePaths, slash : {FALSE},
             ims : {FALSE}] : TRUE }
    \cup {Malformed}

\* str.endswith('/') of the request path
EndsWithSlash(r) == r.slash \/ r.segs = <<>>

(***************************************************************************)
(* posixpath.normpath, on the components of the path                       *)
(***************************************************************************)
RECURSIVE NormComps(_, _, _)
NormComps(abs, segs, acc) ==
    IF segs = <<>> THEN acc
    ELSE LET comp == Head(segs)
             rest == Tail(segs)
         IN  IF comp \in {"", "."} THEN NormComps(abs, rest, acc)
             ELSE IF \/ comp # ".."
                     \/ (~abs /\ acc = <<>>)
                     \/ (acc # <<>> /\ acc[Len(acc)] = "..")
                  THEN NormComps(abs, rest, Append(acc, comp))
             ELSE IF acc # <<>>
                  THEN NormComps(abs, rest, SubSeq(acc, 1, Len(acc) - 1))
             ELSE NormComps(abs, rest, acc)

normpath(abs, segs) ==
    LET comps == NormComps(abs, segs, <<>>)
    IN  IF comps = <<>> /\ ~abs THEN <<".">> ELSE comps

\* the words translate_path joins to the directory: not "." and not ".."
RECURSIVE JoinWords(_, _)
JoinWords(path, words) ==
    IF words = <<>> THEN path
    ELSE IF Head(words) \in {".", ".."} THEN JoinWords(path, Tail(words))
    ELSE JoinWords(Append(path, Head(words)), Tail(words))

\* a translate_path that joins the raw components and leaves ".." to the
\* operating system
translate_path_unfiltered(directory, r) ==
    [p |-> NormComps(TRUE, directory \o r.segs, <<>>),
     slash |-> EndsWithSlash(r)]

\* SimpleHTTPRequestHandler.translate_path: the file system path of a
\* request path, and whether it ends in "/"
translate_path(directory, r) ==
    [p |-> JoinWords(directory, normpath(r.abs, r.segs)),
     slash |-> EndsWithSlash(r)]

(***************************************************************************)
(* Responses                                                               *)
(***************************************************************************)
NoBody == [kind |-> "none", content |-> 0, names |-> {}]
ErrorBody == [kind |-> "error", content |-> 0, names |-> {}]
FileBody(p) == [kind |-> "file", content |-> FsContent(p), names |-> {}]
ListingBody(names) == [kind |-> "listing", content |-> 0, names |-> names]

NoResp == [status |-> 0, body |-> NoBody]

\* send_error: the error page is the body, but not of a HEAD request
send_error(r, code) ==
    [status |-> code, body |-> IF r.kind = "HEAD" THEN NoBody ELSE ErrorBody]

\* a do_GET that sends the headers and closes the file, as do_HEAD does
CopiedNothing(r, body) == NoBody

\* do_GET copies the file to the client, do_HEAD only closes it
Copied(r, body) == IF r.kind = "GET" THEN body ELSE NoBody

IndexNames == <<"index.html", "index.htm">>

\* a handler that never looks for an index file
IndexOfNothing(ev, dir) == <<>>

\* the first index file of a directory, <<>> when it has none
IndexOf(ev, dir) ==
    IF IsFile(ev, Append(dir, IndexNames[1])) THEN <<IndexNames[1]>>
    ELSE IF IsFile(ev, Append(dir, IndexNames[2])) THEN <<IndexNames[2]>>
    ELSE <<>>

NoDec == [act |-> "none", path |-> <<>>, resp |-> NoResp]
Respond(resp) == [act |-> "respond", path |-> <<>>, resp |-> resp]
Open(p) == [act |-> "open", path |-> p, resp |-> NoResp]
List(p) == [act |-> "listdir", path |-> p, resp |-> NoResp]

\* handle_one_request and the first half of send_head: parse the request,
\* pick the method, translate the path, and decide what to open
Resolve(directory, r, ev) ==
    IF r.kind = "malformed" THEN Respond(send_error(r, 400))
    ELSE IF r.kind \notin {"GET", "HEAD"} THEN Respond(send_error(r, 501))
    ELSE LET t == translate_path(directory, r)
         IN  IF IsDir(ev, t.p)
             THEN IF ~EndsWithSlash(r)
                  THEN Respond([status |-> 301, body |-> NoBody])
                  ELSE IF IndexOf(ev, t.p) # <<>>
                       THEN Open(t.p \o IndexOf(ev, t.p))
                       ELSE List(t.p)
             ELSE IF t.slash THEN Respond(send_error(r, 404))
             ELSE Open(t.p)

\* a send_head that does not catch the OSError of open() and of listdir():
\* the handler thread ends with the exception and nothing is sent
FinishRaises(dec, r, ev) ==
    IF dec.act = "respond" THEN dec.resp
    ELSE IF dec.act = "open"
         THEN IF ~CanOpen(ev, dec.path) THEN NoResp
              ELSE IF r.ims THEN [status |-> 304, body |-> NoBody]
              ELSE [status |-> 200, body |-> Copied(r, FileBody(dec.path))]
    ELSE IF ~CanList(ev, dec.path) THEN NoResp
    ELSE [status |-> 200, body |-> Copied(r, ListingBody(ListDir(ev, dec.path)))]

\* the second half of send_head (open, If-Modified-Since, headers) or
\* list_directory, and the copy of the body
Finish(dec, r, ev) ==
    IF dec.act = "respond" THEN dec.resp
    ELSE IF dec.act = "open"
         THEN IF ~CanOpen(ev, dec.path) THEN send_error(r, 404)
              ELSE IF r.ims THEN [status |-> 304, body |-> NoBody]
              ELSE [status |-> 200, body |-> Copied(r, FileBody(dec.path))]
    ELSE IF ~CanList(ev, dec.path) THEN send_error(r, 404)
    ELSE [status |-> 200, body |-> Copied(r, ListingBody(ListDir(ev, dec.path)))]

(***************************************************************************)
(* State                                                                   *)
(***************************************************************************)
VARIABLES
    pc,           \* where main() is: start, bind, print, launch, serve, exited
    procCwd,      \* the working directory of the process
    cwd,          \* main's local cwd
    portOwner,    \* who holds 127.0.0.1:8000: free, other, self
    listener,     \* httpd.socket: [state, addr]
    bindAttempts, \* how many times bind() was called
    stdout,       \* the lines printed
    launch,       \* webbrowser.open: none, opened, nobrowser, raised
    exitStatus,   \* <<>> while the process runs, <<status>> once it has exited
    signalled,    \* the process got an interrupt
    conns,        \* the client connections
    fsEvent,      \* what another process did to the file system
    trace         \* the statements main() has run before the serving loop

vars == <<pc, procCwd, cwd, portOwner, listener, bindAttempts, stdout, launch,
          exitStatus, signalled, conns, fsEvent, trace>>

mainVars == <<pc, cwd, portOwner, listener, bindAttempts, stdout, launch,
              exitStatus, signalled, trace>>

NoDir == <<"">>
NoReq == [kind |-> "none", abs |-> TRUE, segs |-> <<>>, slash |-> FALSE,
          ims |-> FALSE]

\* a free connection slot
Idle == [phase |-> "idle", req |-> NoReq, dir |-> NoDir, dec |-> NoDec,
         resp |-> NoResp, aborted |-> FALSE]

Conns == DOMAIN conns
Running == exitStatus = <<>>
InFlight(c) == conns[c].phase \in {"accepted", "request", "resolved"}

Url == [host |-> HOST, port |-> PORT]
NoSocket == [state |-> "none", addr |-> <<>>]

InitMain ==
    /\ pc = "start"
    /\ procCwd \in CwdChoices
    /\ cwd = NoDir
    /\ portOwner \in {"free", "other"}
    /\ listener = NoSocket
    /\ bindAttempts = 0
    /\ stdout = <<>>
    /\ launch = "none"
    /\ exitStatus = <<>>
    /\ signalled = FALSE
    /\ fsEvent = NoFsEvent
    /\ trace = <<>>

Init == InitMain /\ conns = [c \in 1..MaxConns |-> Idle]

InitPath == InitMain /\ conns = [c \in {1} |-> Idle]

(***************************************************************************)
(* main()                                                                  *)
(***************************************************************************)
\* cwd = os.getcwd()
GetCwd ==
    /\ pc = "start" /\ Running
    /\ cwd' = procCwd
    /\ pc' = "bind"
    /\ trace' = Append(trace, "getcwd")
    /\ UNCHANGED <<procCwd, portOwner, listener, bindAttempts, stdout, launch,
                   exitStatus, signalled, conns, fsEvent>>

\* a main() that goes on when the bind has failed
BindSwallowed ==
    /\ pc = "bind" /\ Running
    /\ bindAttempts' = bindAttempts + 1
    /\ \E rejected \in BOOLEAN :
         IF portOwner = "free" /\ ~rejected
         THEN /\ listener' = [state |-> "listening", addr |-> <<HOST, PORT>>]
              /\ portOwner' = "self"
              /\ trace' = Append(trace, "bind")
         ELSE /\ listener' = [state |-> "closed", addr |-> <<>>]
              /\ portOwner' = portOwner
              /\ trace' = Append(trace, "bindfailed")
    /\ pc' = "print"
    /\ UNCHANGED <<procCwd, cwd, stdout, launch, exitStatus, signalled, conns,
                   fsEvent>>

\* with ThreadingHTTPServer((HOST, PORT), SimpleHTTPRequestHandler) as httpd:
\* TCPServer.__init__ binds and listens; when either fails it closes the
\* socket and raises, and main() has no handler for it
Bind ==
    /\ pc = "bind" /\ Running
    /\ bindAttempts' = bindAttempts + 1
    /\ \E rejected \in BOOLEAN :
         IF portOwner = "free" /\ ~rejected
         THEN /\ listener' = [state |-> "listening", addr |-> <<HOST, PORT>>]
              /\ portOwner' = "self"
              /\ pc' = "print"
              /\ exitStatus' = exitStatus
              /\ trace' = Append(trace, "bind")
         ELSE /\ listener' = [state |-> "closed", addr |-> <<>>]
              /\ portOwner' = portOwner
              /\ pc' = "exited"
              /\ exitStatus' = <<1>>
              /\ trace' = Append(trace, "bindfailed")
    /\ UNCHANGED <<procCwd, cwd, stdout, launch, signalled, conns, fsEvent>>

\* print(f"Serving '{cwd}' at {url}")
PrintServing ==
    /\ pc = "print" /\ Running
    /\ stdout' = Append(stdout, [dir |-> cwd, url |-> Url])
    /\ pc' = "launch"
    /\ trace' = Append(trace, "print")
    /\ UNCHANGED <<procCwd, cwd, portOwner, listener, bindAttempts, launch,
                   exitStatus, signalled, conns, fsEvent>>

\* a main() that calls webbrowser.open(url) outside any try
LaunchUncaught ==
    /\ pc = "launch" /\ Running
    /\ \E outcome \in {"opened", "nobrowser", "raised"} :
         /\ launch' = outcome
         /\ IF outcome = "raised"
            THEN /\ pc' = "exited"
                 /\ exitStatus' = <<1>>
                 /\ listener' = [state |-> "closed", addr |-> <<>>]
                 /\ portOwner' = "free"
            ELSE /\ pc' = "serve"
                 /\ UNCHANGED <<exitStatus, listener, portOwner>>
    /\ trace' = Append(trace, "launch")
    /\ UNCHANGED <<procCwd, cwd, bindAttempts, stdout, signalled, conns,
                   fsEvent>>

\* try: webbrowser.open(url) / except Exception: pass
\* the call returns True, returns False, or raises
Launch ==
    /\ pc = "launch" /\ Running
    /\ \E outcome \in {"opened", "nobrowser", "raised"} : launch' = outcome
    /\ pc' = "serve"
    /\ trace' = Append(trace, "launch")
    /\ UNCHANGED <<procCwd, cwd, portOwner, listener, bindAttempts, stdout,
                   exitStatus, signalled, conns, fsEvent>>

\* a main() that serves from a background thread started before the launch
AcceptingEarly(p) == p \in {"launch", "serve"}

\* httpd.serve_forever() is where connections are accepted
Accepting(p) == p = "serve"

\* a main() that calls httpd.handle_request()
ServeCallOnce == "handle_request"

\* httpd.serve_forever(): the loop ends only by shutdown(), which no code calls
ServeCall == "serve_forever"

\* a server that handles each request in the accepting thread
ServerClassPlain == "HTTPServer"

\* ThreadingHTTPServer: process_request starts a daemon thread per connection
ServerClass == "ThreadingHTTPServer"

\* the main thread is inside a request handler
MainBusy == ServerClass = "HTTPServer" /\ \E c \in Conns : InFlight(c)

\* a handler that serves the root of the file system
HandlerDirectoryFsRoot(d) == <<>>

\* SimpleHTTPRequestHandler.__init__ with no directory: os.getcwd()
HandlerDirectory(d) == d

\* one round of the serve_forever loop with a connection waiting:
\* get_request (accept) and process_request
Accept(c) ==
    /\ Accepting(pc) /\ Running /\ ~MainBusy
    /\ conns[c].phase = "backlog"
    /\ conns' = [conns EXCEPT ![c] = [@ EXCEPT !.phase = "accepted",
                                       !.dir = HandlerDirectory(procCwd)]]
    /\ IF ServeCall = "serve_forever"
       THEN /\ pc' = "serve"
            /\ UNCHANGED <<exitStatus, listener, portOwner>>
       ELSE /\ pc' = "exited"
            /\ exitStatus' = <<0>>
            /\ listener' = [state |-> "closed", addr |-> <<>>]
            /\ portOwner' = "free"
    /\ UNCHANGED <<procCwd, cwd, bindAttempts, stdout, launch, signalled,
                   fsEvent, trace>>

\* an interrupt from outside: KeyboardInterrupt in the main thread, which
\* nothing catches; leaving the with block closes the listener, and the
\* daemon threads and their connections end with the process
Interrupt ==
    /\ Running
    /\ signalled' = TRUE
    /\ pc' = "exited"
    /\ exitStatus' = <<130>>
    /\ listener' = IF listener.state = "listening"
                   THEN [state |-> "closed", addr |-> <<>>] ELSE listener
    /\ portOwner' = IF portOwner = "self" THEN "free" ELSE portOwner
    /\ conns' = [c \in Conns |-> Idle]
    /\ UNCHANGED <<procCwd, cwd, bindAttempts, stdout, launch, fsEvent, trace>>

(***************************************************************************)
(* The clients, the handler threads and the file system                    *)
(***************************************************************************)
\* a client connects: the kernel queues the connection on the listening
\* socket until the server accepts it
ClientConnect(c) ==
    /\ Running /\ listener.state = "listening"
    /\ conns[c].phase = "idle"
    /\ conns' = [conns EXCEPT ![c] = [Idle EXCEPT !.phase = "backlog"]]
    /\ UNCHANGED <<mainVars, procCwd, fsEvent>>

\* the client sends its request, whenever it gets to it
ClientSend(c, reqs) ==
    /\ Running
    /\ conns[c].phase = "accepted"
    /\ \E r \in reqs : conns' = [conns EXCEPT ![c] = [@ EXCEPT !.phase = "request",
                                                       !.req = r]]
    /\ UNCHANGED <<mainVars, procCwd, fsEvent>>

\* the client drops the connection: the handler's read or write raises,
\* process_request_thread catches it and closes the request
ClientAbort(c) ==
    /\ Running
    /\ InFlight(c)
    /\ conns' = [conns EXCEPT ![c] = [Idle EXCEPT !.phase = "done",
                                          !.aborted = TRUE]]
    /\ UNCHANGED <<mainVars, procCwd, fsEvent>>

\* the handler thread reads the request and resolves it
HandlerResolve(c) ==
    /\ Running
    /\ conns[c].phase = "request"
    /\ conns' = [conns EXCEPT ![c] =
                   [@ EXCEPT !.phase = "resolved",
                             !.dec = Resolve(conns[c].dir, conns[c].req, fsEvent)]]
    /\ UNCHANGED <<mainVars, procCwd, fsEvent>>

\* the handler thread sends the response; shutdown_request closes the
\* connection
HandlerFinish(c) ==
    /\ Running
    /\ conns[c].phase = "resolved"
    /\ conns' = [conns EXCEPT ![c] =
                   [@ EXCEPT !.phase = "done",
                             !.resp = Finish(conns[c].dec, conns[c].req, fsEvent)]]
    /\ UNCHANGED <<mainVars, procCwd, fsEvent>>

\* the client is gone; the slot is free for the next connection
Forget(c) ==
    /\ Running
    /\ conns[c].phase = "done"
    /\ conns' = [conns EXCEPT ![c] = Idle]
    /\ UNCHANGED <<mainVars, procCwd, fsEvent>>

\* another process removes a file or takes away all permissions of a file
\* or directory
FsChange(ev) ==
    /\ Running
    /\ fsEvent = NoFsEvent
    /\ fsEvent' = ev
    /\ UNCHANGED <<mainVars, procCwd, conns>>

NextWith(reqs, events) ==
    \/ GetCwd
    \/ Bind
    \/ PrintServing
    \/ Launch
    \/ Interrupt
    \/ \E c \in Conns : Accept(c)
    \/ \E c \in Conns : ClientConnect(c)
    \/ \E c \in Conns : ClientSend(c, reqs)
    \/ \E c \in Conns : ClientAbort(c)
    \/ \E c \in Conns : HandlerResolve(c)
    \/ \E c \in Conns : HandlerFinish(c)
    \/ \E c \in Conns : Forget(c)
    \/ \E ev \in events : FsChange(ev)

Next == NextWith(ServeRequests, ServeFsEvents)

NextPath == NextWith(PathRequests, FsEvents)

\* concurrent connections, short request paths
Spec == Init /\ [][Next]_vars

\* one connection, every request path up to MaxSegs segments
PathSpec == InitPath /\ [][NextPath]_vars

(***************************************************************************)
(* Properties                                                              *)
(***************************************************************************)
BindFailed == trace # <<>> /\ Last(trace) = "bindfailed"
Answered(c) == conns[c].phase = "done" /\ ~conns[c].aborted
Started(c) == conns[c].phase \notin {"idle", "backlog"}
StartupSteps == <<"getcwd", "bind", "print", "launch">>

\* C1: main() runs its startup steps in the order bind on 127.0.0.1:8000,
\* print the serving line, try the browser launch, enter the serving loop;
\* the line is printed and the launch tried only after a successful bind, and
\* no connection is accepted before the launch call has returned.
C1_StartupOrder ==
    /\ (IsPrefix(trace, StartupSteps) \/ trace = <<"getcwd", "bindfailed">>)
    /\ (listener.state = "listening" => listener.addr = <<"127.0.0.1", 8000>>)
    /\ (stdout # <<>> =>
          /\ Len(trace) >= 2 /\ trace[2] = "bind"
          /\ stdout = <<[dir |-> cwd, url |-> [host |-> "127.0.0.1", port |-> 8000]]>>)
    /\ (launch # "none" <=> Len(trace) = 4)
    /\ (launch # "none" => Len(stdout) = 1)
    /\ (pc = "print" <=> Running /\ Len(trace) = 2 /\ trace[2] = "bind")
    /\ (pc = "launch" <=> Running /\ Len(trace) = 3)
    /\ (pc = "serve" <=> Running /\ Len(trace) = 4)
    /\ (pc \in {"print", "launch", "serve"} => listener.state = "listening")
    /\ \A c \in Conns : Started(c) => launch # "none"

\* a connection waits in the listen queue during the launch, and is not
\* accepted
C1_Witness ==
    /\ pc = "serve"
    /\ \E c \in Conns : Started(c)
    /\ \E c \in Conns : conns[c].phase = "backlog"

\* C2: whatever the browser launch does (opens, finds no browser, raises),
\* after a successful bind the process is in the serving loop and accepts the
\* connections that come; the outcome does not change the exit status.
C2_LaunchNeverFatal ==
    (launch # "none" /\ ~signalled) =>
        /\ pc = "serve"
        /\ exitStatus = <<>>
        /\ listener.state = "listening"
        /\ \A c \in Conns : conns[c].phase = "backlog" => ENABLED Accept(c)

C2_Witness ==
    /\ launch = "raised"
    /\ \E c \in Conns : Answered(c) /\ conns[c].resp.status = 200

\* C3: when the bind of 127.0.0.1:8000 fails, startup fails at once: one bind
\* attempt, a non-zero exit status, no listening socket left, no serving
\* line, no browser launch, no serving loop.
C3_BindFailureFatal ==
    /\ bindAttempts <= 1
    /\ (bindAttempts = 1 /\ portOwner # "self" /\ ~signalled => BindFailed)
    /\ (BindFailed =>
          /\ pc = "exited"
          /\ exitStatus # <<>> /\ exitStatus[1] # 0
          /\ bindAttempts = 1
          /\ listener.state = "closed"
          /\ portOwner # "self"
          /\ stdout = <<>>
          /\ launch = "none"
          /\ \A c \in Conns : conns[c].phase = "idle")

C3_Witness == BindFailed /\ portOwner = "other" /\ exitStatus = <<1>>

\* the request of connection c fails when the handler serves it: it is
\* malformed, or the file or directory it resolved to (a path that names
\* nothing, a file without permission, a file removed since it was resolved,
\* a traversal attempt that names nothing inside the root) cannot be read
Failing(c) ==
    \/ conns[c].req.kind = "malformed"
    \/ conns[c].dec.act = "open" /\ ~CanOpen(fsEvent, conns[c].dec.path)
    \/ conns[c].dec.act = "listdir" /\ ~CanList(fsEvent, conns[c].dec.path)

C5_ConnectionsIndependent ==
    \A c \in Conns :
        /\ (pc = "serve" /\ Running /\ conns[c].phase = "backlog") => ENABLED Accept(c)
        /\ (Running /\ conns[c].phase = "request") => ENABLED HandlerResolve(c)
        /\ (Running /\ conns[c].phase = "resolved") => ENABLED HandlerFinish(c)

\* one connection is accepted and silent, another waits to be accepted
C5_Witness ==
    \E c, d \in Conns :
        /\ conns[c].phase = "accepted"
        /\ conns[d].phase = "backlog"
        /\ pc = "serve" /\ Running

\* C7: the process never leaves the serving loop by itself: it leaves it only
\* on an interrupt, and it never exits with status 0.
C7_NeverStopsItself ==
    /\ exitStatus # <<0>>
    /\ (exitStatus # <<>> /\ ~BindFailed => signalled /\ exitStatus = <<130>>)
    /\ (launch # "none" /\ ~signalled => pc = "serve")

\* every connection slot has been served and the process still serves
C7_Witness ==
    /\ pc = "serve"
    /\ \A c \in Conns : Answered(c)

\* C10: every request is resolved against the working directory main() took
\* at startup and printed; no handler step changes that directory or the
\* file system.
C10_RootFixed ==
    /\ [](\A c \in Conns : (Started(c) /\ ~conns[c].aborted) =>
            /\ conns[c].dir = cwd
            /\ conns[c].dir = stdout[1].dir
            /\ conns[c].dir = procCwd
            /\ (conns[c].dec.act \in {"open", "listdir"} =>
                  IsPrefix(cwd, conns[c].dec.path)))
    /\ [][procCwd' = procCwd]_vars
    /\ [][(cwd # NoDir) => cwd' = cwd]_vars
    /\ [][(\E c \in Conns : conns'[c] # conns[c]) => fsEvent' = fsEvent]_vars

C10_Witness ==
    \E c \in Conns :
        /\ Answered(c) /\ conns[c].resp.status = 200
        /\ conns[c].dir = <<"srv", "d">>
        /\ stdout = <<[dir |-> <<"srv", "d">>, url |-> Url]>>

(***************************************************************************)
(* Properties of the request handler, over every request path              *)
(***************************************************************************)
\* the request path climbs above the directory it starts in: at some point
\* it has more ".." segments than names
Escapes(r) ==
    \E k \in 1..Len(r.segs) :
        Cardinality({ i \in 1..k : r.segs[i] = ".." })
            > Cardinality({ i \in 1..k : r.segs[i] # ".." })

UnderRoot(root, p) == IsPrefix(root, p) /\ p # root

GetOf(c, p) ==
    /\ conns[c].req.kind = "GET"
    /\ conns[c].req.abs
    /\ ".." \notin { conns[c].req.segs[i] : i \in 1..Len(conns[c].req.segs) }
    /\ conns[c].dir \o conns[c].req.segs = p

\* C8, as claimed: a GET of the path of a regular file under the serving
\* root returns 200 and the file's content.
C8_FileIsServed ==
    \A c \in Conns : \A f \in FsFiles :
        (Answered(c) /\ GetOf(c, f) /\ ~conns[c].req.slash /\ IsFile(fsEvent, f))
            => conns[c].resp = [status |-> 200, body |-> FileBody(f)]

\* C8, amended: a GET of the path of a regular file under the serving root
\* that the server can open, with no If-Modified-Since date at or after the
\* file's modification time, returns 200 and the file's content.
C8_ReadableFileIsServed ==
    \A c \in Conns : \A f \in FsFiles :
        (Answered(c) /\ GetOf(c, f) /\ ~conns[c].req.slash
            /\ CanOpen(fsEvent, f) /\ ~conns[c].req.ims)
            => conns[c].resp = [status |-> 200, body |-> FileBody(f)]

C8_Witness ==
    \E c \in Conns :
        /\ Answered(c) /\ GetOf(c, <<"srv", "d", "index.html">>)
        /\ ~conns[c].req.slash /\ ~conns[c].req.ims
        /\ conns[c].resp = [status |-> 200, body |-> FileBody(<<"srv", "d", "index.html">>)]

HasIndexHtml(d) == IsFile(fsEvent, Append(d, "index.html"))

C9_WitnessListing ==
    \E c \in Conns :
        /\ Answered(c) /\ GetOf(c, <<"srv">>)
        /\ conns[c].resp.status = 200
        /\ conns[c].resp.body = ListingBody({"a", "d", "e"})

====
